---------------------------- MODULE Spec2Model ----------------------------
(***************************************************************************)
(* Model of the duplicate-matching engine of dj-library-manager:           *)
(*   src/src/analyzers/duplicate.rs  (DuplicateAnalyzer)                   *)
(*   src/src/utils/parallel.rs       (ParallelProcessor)                   *)
(*                                                                         *)
(* Rust `String`/`&str` values are TLA+ strings; a character is a string   *)
(* of length one.  `Option<T>` is a sequence of length 0 (None) or 1       *)
(* (Some(x)).  File names are restricted to printable ASCII, on which      *)
(* Rust's Unicode-aware to_lowercase/trim/is_ascii_digit coincide with the *)
(* ASCII definitions below.                                                *)
(***************************************************************************)
EXTENDS Integers, Sequences, FiniteSets, TLC

(***************************************************************************)
(* Option<T>                                                               *)
(***************************************************************************)
None == <<>>

Some(x) == <<x>>

IsSome(o) == Len(o) = 1

Unwrap(o) == o[1]

(***************************************************************************)
(* Primitive string operations of the Rust standard library, as used by    *)
(* duplicate.rs.  Indices are 1-based here and 0-based in Rust.            *)
(***************************************************************************)
Ch(s, i) == SubSeq(s, i, i)

\* Printable ASCII in code-point order: ' ' (32) .. '_' (95), then 'a' (97) ..
\* '~' (126).  The grave accent (96) cannot be written in a TLA+ string and
\* is outside the modelled alphabet.
AsciiLow == " !\"#$%&'()*+,-./0123456789:;<=>?@ABCDEFGHIJKLMNOPQRSTUVWXYZ[\\]^_"

AsciiHigh == "abcdefghijklmnopqrstuvwxyz{|}~"

\* Code point of each printable ASCII character.
CodePoints ==
    [c \in {Ch(AsciiLow, i) : i \in 1..Len(AsciiLow)} |->
        31 + (CHOOSE i \in 1..Len(AsciiLow) : Ch(AsciiLow, i) = c)]
    @@
    [c \in {Ch(AsciiHigh, i) : i \in 1..Len(AsciiHigh)} |->
        96 + (CHOOSE i \in 1..Len(AsciiHigh) : Ch(AsciiHigh, i) = c)]

CharCode(c) == CodePoints[c]

\* char::to_lowercase on ASCII: 'A'..'Z' (65..90) map to 'a'..'z' (97..122).
LowerChar(c) ==
    LET k == CharCode(c)
    IN  IF k >= 65 /\ k <= 90 THEN Ch(AsciiHigh, k + 32 - 96) ELSE c

RECURSIVE to_lowercase(_)
to_lowercase(s) ==
    IF Len(s) = 0 THEN ""
    ELSE LowerChar(Head(s)) \o to_lowercase(Tail(s))

\* char::is_ascii_digit
is_ascii_digit(c) == CharCode(c) >= 48 /\ CharCode(c) <= 57

\* char::is_whitespace, restricted to printable ASCII
is_whitespace(c) == c = " "

starts_with(s, p) == Len(s) >= Len(p) /\ SubSeq(s, 1, Len(p)) = p

ends_with(s, p) ==
    Len(s) >= Len(p) /\ SubSeq(s, Len(s) - Len(p) + 1, Len(s)) = p

\* str::find: 1-based index of the first occurrence of p in s, 0 when absent.
find(s, p) ==
    LET hits == {i \in 1..(Len(s) - Len(p) + 1) : SubSeq(s, i, i + Len(p) - 1) = p}
    IN  IF hits = {} THEN 0 ELSE CHOOSE i \in hits : \A k \in hits : i <= k

\* str::rfind: 1-based index of the last occurrence of p in s, 0 when absent.
rfind(s, p) ==
    LET hits == {i \in 1..(Len(s) - Len(p) + 1) : SubSeq(s, i, i + Len(p) - 1) = p}
    IN  IF hits = {} THEN 0 ELSE CHOOSE i \in hits : \A k \in hits : i >= k

\* str::contains
contains(s, p) == find(s, p) # 0

\* str::replace: every non-overlapping occurrence of `from`, left to right.
RECURSIVE replace(_, _, _)
replace(s, from, to) ==
    IF Len(s) = 0 THEN ""
    ELSE IF starts_with(s, from)
         THEN to \o replace(SubSeq(s, Len(from) + 1, Len(s)), from, to)
         ELSE Head(s) \o replace(Tail(s), from, to)

RECURSIVE trim_start(_)
trim_start(s) ==
    IF Len(s) > 0 /\ is_whitespace(Head(s)) THEN trim_start(Tail(s)) ELSE s

RECURSIVE trim_end(_)
trim_end(s) ==
    IF Len(s) > 0 /\ is_whitespace(Ch(s, Len(s)))
    THEN trim_end(SubSeq(s, 1, Len(s) - 1))
    ELSE s

\* str::trim
trim(s) == trim_end(trim_start(s))

\* str::split(sep).collect::<Vec<_>>(): always at least one segment.
RECURSIVE split(_, _)
split(s, sep) ==
    LET i == find(s, sep)
    IN  IF i = 0 THEN <<s>>
        ELSE <<SubSeq(s, 1, i - 1)>> \o split(SubSeq(s, i + Len(sep), Len(s)), sep)

\* [&str]::join(sep)
RECURSIVE join(_, _)
join(parts, sep) ==
    IF Len(parts) = 0 THEN ""
    ELSE IF Len(parts) = 1 THEN parts[1]
    ELSE parts[1] \o sep \o join(Tail(parts), sep)

\* Ord for str: lexicographic by code point, a proper prefix sorts first.
RECURSIVE str_lt(_, _)
str_lt(a, b) ==
    IF Len(b) = 0 THEN FALSE
    ELSE IF Len(a) = 0 THEN TRUE
    ELSE IF Head(a) = Head(b) THEN str_lt(Tail(a), Tail(b))
    ELSE CharCode(Head(a)) < CharCode(Head(b))

\* Insert x into the sorted sequence xs, after every element not above it.
RECURSIVE sort_insert(_, _)
sort_insert(xs, x) ==
    IF Len(xs) = 0 THEN <<x>>
    ELSE IF str_lt(x, Head(xs)) THEN <<x>> \o xs
    ELSE <<Head(xs)>> \o sort_insert(Tail(xs), x)

\* Vec<&str>::sort (stable, ascending)
RECURSIVE sort(_)
sort(xs) ==
    IF Len(xs) = 0 THEN <<>>
    ELSE sort_insert(sort(SubSeq(xs, 1, Len(xs) - 1)), xs[Len(xs)])

(***************************************************************************)
(* DuplicateAnalyzer (src/src/analyzers/duplicate.rs)                      *)
(***************************************************************************)

\* title_regex ^\d+\.?\s* applied with Regex::replace: the leftmost match is
\* removed; the pattern is anchored, so it matches only a string that starts
\* with a digit, and the greedy quantifiers never give back.
RECURSIVE skip_digits(_)
skip_digits(s) ==
    IF Len(s) > 0 /\ is_ascii_digit(Head(s)) THEN skip_digits(Tail(s)) ELSE s

skip_dot(s) == IF Len(s) > 0 /\ Head(s) = "." THEN Tail(s) ELSE s

title_regex_replace(s) ==
    IF Len(s) > 0 /\ is_ascii_digit(Head(s))
    THEN trim_start(skip_dot(skip_digits(s)))
    ELSE s

\* One element of the comma-separated artist list: trimmed, cut at its first
\* '(' and trimmed again.
artist_name(piece) ==
    LET name == trim(piece)
        paren_start == find(name, "(")
    IN  IF paren_start # 0 THEN trim(SubSeq(name, 1, paren_start - 1)) ELSE name

normalize_artist(artist) ==
    LET normalized ==
            replace(replace(replace(to_lowercase(artist),
                                    "feat.", "featuring"),
                            "ft.", "featuring"),
                    " x ", " featuring ")
        pieces == split(normalized, ",")
        artists == [k \in 1..Len(pieces) |-> artist_name(pieces[k])]
    IN  join(sort(artists), ", ")

version_markers ==
    <<"remix", "mix", "edit", "version", "extended",
      "radio", "club", "dub", "instrumental", "remaster",
      "bootleg", "mashup", "flip", "recut", "reprise">>

RECURSIVE count_digits(_)
count_digits(s) ==
    IF Len(s) = 0 THEN 0
    ELSE (IF is_ascii_digit(Head(s)) THEN 1 ELSE 0) + count_digits(Tail(s))

\* Number of ASCII digits that make a marker-less annotation a year marker.
YearDigits == 4

is_version_marker(text) ==
    LET text_lower == to_lowercase(text)
    IN  \/ \E k \in 1..Len(version_markers) : contains(text_lower, version_markers[k])
        \/ count_digits(text_lower) >= YearDigits

\* Variant of extract_version: every closed parenthetical is taken as the
\* version and removed from the title, marker or not.
extract_version_any_text(title_parts) ==
    LET paren_start == rfind(title_parts, "(")
        paren_end ==
            IF paren_start = 0 THEN 0
            ELSE find(SubSeq(title_parts, paren_start, Len(title_parts)), ")")
    IN  IF paren_start # 0 /\ paren_end # 0
        THEN <<trim(SubSeq(title_parts, 1, paren_start - 1)),
               Some(to_lowercase(trim(SubSeq(title_parts, paren_start + 1,
                                             paren_start + paren_end - 2))))>>
        ELSE <<trim(title_parts), None>>

\* Variant of extract_version: a last '(' without a ')' after it is closed
\* by the end of the string.
extract_version_unclosed(title_parts) ==
    LET paren_start == rfind(title_parts, "(")
        found ==
            IF paren_start = 0 THEN 0
            ELSE find(SubSeq(title_parts, paren_start, Len(title_parts)), ")")
        paren_end == IF found = 0 THEN Len(title_parts) - paren_start + 2 ELSE found
        version_text ==
            trim(SubSeq(title_parts, paren_start + 1, paren_start + paren_end - 2))
    IN  IF paren_start # 0 /\ is_version_marker(version_text)
        THEN <<trim(SubSeq(title_parts, 1, paren_start - 1)),
               Some(to_lowercase(version_text))>>
        ELSE <<trim(title_parts), None>>

\* The (clean_title, version) pair extracted from the title part of a name.
extract_version(title_parts) ==
    LET paren_start == rfind(title_parts, "(")
        paren_end ==
            IF paren_start = 0 THEN 0
            ELSE find(SubSeq(title_parts, paren_start, Len(title_parts)), ")")
        version_text ==
            trim(SubSeq(title_parts, paren_start + 1, paren_start + paren_end - 2))
    IN  IF paren_start # 0 /\ paren_end # 0 /\ is_version_marker(version_text)
        THEN <<trim(SubSeq(title_parts, 1, paren_start - 1)),
               Some(to_lowercase(version_text))>>
        ELSE <<trim(title_parts), None>>

\* Variant of clean_title: a name without " - " gets its cleaned form as the
\* title too.
clean_title_whole_name(filename) ==
    LET dot == rfind(filename, ".")
        without_ext ==
            IF dot = 0 THEN filename ELSE SubSeq(filename, 1, dot - 1)
        without_numbers ==
            title_regex_replace(
                trim(replace(replace(replace(without_ext, "[", ""), "]", ""), "_", " ")))
        parts == split(without_numbers, " - ")
    IN  IF Len(parts) < 2
        THEN <<without_numbers, Some(without_numbers), None>>
        ELSE LET tv == extract_version(join(Tail(parts), " - "))
             IN  <<normalize_artist(trim(parts[1])), Some(to_lowercase(tv[1])), tv[2]>>

\* clean_title: <<artist, Option<title>, Option<version>>>
clean_title(filename) ==
    LET dot == rfind(filename, ".")
        without_ext ==
            IF dot = 0 THEN filename ELSE SubSeq(filename, 1, dot - 1)
        without_brackets ==
            trim(replace(replace(replace(without_ext, "[", ""), "]", ""), "_", " "))
        without_numbers == title_regex_replace(without_brackets)
        parts == split(without_numbers, " - ")
    IN  IF Len(parts) < 2
        THEN <<without_numbers, None, None>>
        ELSE LET artist == normalize_artist(trim(parts[1]))
                 title_parts == join(Tail(parts), " - ")
                 tv == extract_version(title_parts)
             IN  <<artist, Some(to_lowercase(tv[1])), tv[2]>>

core_markers == <<"extended", "remix", "mix", "edit", "version">>

\* v1_types / v2_types: the core markers contained in a lower-cased version.
core_types(v_lower) ==
    {k \in 1..Len(core_markers) : contains(v_lower, core_markers[k])}

\* Variant of are_different_versions: the (None, Some(v)) arm is missing, so
\* only a version on the first argument separates the files.
are_different_versions_one_sided(version1, version2) ==
    IF IsSome(version1) /\ IsSome(version2)
    THEN ~ ( /\ is_version_marker(Unwrap(version1))
             /\ is_version_marker(Unwrap(version2))
             /\ core_types(to_lowercase(Unwrap(version1)))
                    \cap core_types(to_lowercase(Unwrap(version2))) # {} )
    ELSE IF IsSome(version1) THEN is_version_marker(Unwrap(version1))
    ELSE FALSE

\* Variant of are_different_versions: two marker-bearing versions are always
\* the same version.
are_different_versions_lenient(version1, version2) ==
    IF IsSome(version1) /\ IsSome(version2)
    THEN ~ (is_version_marker(Unwrap(version1)) /\ is_version_marker(Unwrap(version2)))
    ELSE IF IsSome(version1) THEN is_version_marker(Unwrap(version1))
    ELSE IF IsSome(version2) THEN is_version_marker(Unwrap(version2))
    ELSE FALSE

are_different_versions(version1, version2) ==
    IF IsSome(version1) /\ IsSome(version2)
    THEN LET v1 == Unwrap(version1)
             v2 == Unwrap(version2)
             contains_marker1 == is_version_marker(v1)
             contains_marker2 == is_version_marker(v2)
             v1_types == core_types(to_lowercase(v1))
             v2_types == core_types(to_lowercase(v2))
         IN  IF /\ contains_marker1 /\ contains_marker2
                /\ \E v1_type \in v1_types : v1_type \in v2_types
             THEN FALSE
             ELSE TRUE
    ELSE IF IsSome(version1) THEN is_version_marker(Unwrap(version1))
    ELSE IF IsSome(version2) THEN is_version_marker(Unwrap(version2))
    ELSE FALSE

get_formatted_reason(artist, title, version1, version2) ==
    LET version_info ==
            IF version1 = version2
            THEN (IF IsSome(version1) THEN " (" \o Unwrap(version1) \o ")" ELSE "")
            ELSE IF IsSome(version1) THEN " (" \o Unwrap(version1) \o ")"
            ELSE IF IsSome(version2) THEN " (" \o Unwrap(version2) \o ")"
            ELSE ""
    IN  "Exact title match: '" \o artist \o " - " \o title \o version_info \o "'"

\* Bytes per megabyte in the size explanation.
BytesPerMB == 1048576

\* format!("{:.2}", bytes as f64 / 1_048_576.0).  The quotient is exact in
\* f64 (division by a power of two, bytes < 2^53), and the formatter rounds
\* the exact value to two decimals, ties to even.  Whole megabytes and the
\* remainder are scaled separately to stay within 32-bit arithmetic.
format_mb(bytes) ==
    LET whole == bytes \div BytesPerMB
        scaled == (bytes % BytesPerMB) * 100
        q == scaled \div BytesPerMB
        r == scaled % BytesPerMB
        hundredths ==
            whole * 100 +
            (IF 2 * r > BytesPerMB \/ (2 * r = BytesPerMB /\ q % 2 = 1)
             THEN q + 1 ELSE q)
        frac == hundredths % 100
    IN  ToString(hundredths \div 100) \o "."
            \o (IF frac < 10 THEN "0" ELSE "") \o ToString(frac)

\* Variant of determine_quality_difference: the arm that lets a `.flac`
\* second file win is missing.
determine_quality_difference_one_arm(file1, file2) ==
    IF /\ IsSome(file1.bitrate) /\ IsSome(file2.bitrate)
       /\ Unwrap(file1.bitrate) # Unwrap(file2.bitrate)
    THEN <<IF ends_with(file1.file_name, ".flac") /\ ~ends_with(file2.file_name, ".flac")
           THEN TRUE
           ELSE Unwrap(file1.bitrate) > Unwrap(file2.bitrate),
           "Bitrate difference: " \o ToString(Unwrap(file1.bitrate)) \o " vs "
               \o ToString(Unwrap(file2.bitrate)) \o " kbps">>
    ELSE IF file1.size_bytes # file2.size_bytes
    THEN <<file1.size_bytes > file2.size_bytes,
           "Size difference: " \o format_mb(file1.size_bytes) \o " MB vs "
               \o format_mb(file2.size_bytes) \o " MB">>
    ELSE <<TRUE, "Files are identical in size and bitrate">>

\* Variant of determine_quality_difference: the `.flac` precedence is missing
\* from the bitrate branch.
determine_quality_difference_bitrate_only(file1, file2) ==
    IF /\ IsSome(file1.bitrate) /\ IsSome(file2.bitrate)
       /\ Unwrap(file1.bitrate) # Unwrap(file2.bitrate)
    THEN <<Unwrap(file1.bitrate) > Unwrap(file2.bitrate),
           "Bitrate difference: " \o ToString(Unwrap(file1.bitrate)) \o " vs "
               \o ToString(Unwrap(file2.bitrate)) \o " kbps">>
    ELSE IF file1.size_bytes # file2.size_bytes
    THEN <<file1.size_bytes > file2.size_bytes,
           "Size difference: " \o format_mb(file1.size_bytes) \o " MB vs "
               \o format_mb(file2.size_bytes) \o " MB">>
    ELSE <<TRUE, "Files are identical in size and bitrate">>

\* determine_quality_difference: <<file1_better, explanation>>
determine_quality_difference(file1, file2) ==
    IF /\ IsSome(file1.bitrate) /\ IsSome(file2.bitrate)
       /\ Unwrap(file1.bitrate) # Unwrap(file2.bitrate)
    THEN LET b1 == Unwrap(file1.bitrate)
             b2 == Unwrap(file2.bitrate)
             flac1 == ends_with(file1.file_name, ".flac")
             flac2 == ends_with(file2.file_name, ".flac")
             file1_better ==
                 IF flac1 /\ ~flac2 THEN TRUE
                 ELSE IF ~flac1 /\ flac2 THEN FALSE
                 ELSE b1 > b2
         IN  <<file1_better,
               "Bitrate difference: " \o ToString(b1) \o " vs " \o ToString(b2) \o " kbps">>
    ELSE IF file1.size_bytes # file2.size_bytes
    THEN <<file1.size_bytes > file2.size_bytes,
           "Size difference: " \o format_mb(file1.size_bytes) \o " MB vs "
               \o format_mb(file2.size_bytes) \o " MB">>
    ELSE <<TRUE, "Files are identical in size and bitrate">>

\* Variant of are_duplicates: the comparison of the titles is missing.
are_duplicates_no_title_check(file1, file2) ==
    LET c1 == clean_title(file1.file_name)
        c2 == clean_title(file2.file_name)
    IN  IF c1[1] # c2[1] THEN None
        ELSE IF ~(IsSome(c1[2]) /\ IsSome(c2[2])) THEN None
        ELSE IF are_different_versions(c1[3], c2[3]) THEN None
        ELSE LET q == determine_quality_difference(file1, file2)
             IN  Some([higher_quality |-> IF q[1] THEN file1 ELSE file2,
                       lower_quality |-> IF q[1] THEN file2 ELSE file1,
                       match_reason |->
                           get_formatted_reason(c1[1], Unwrap(c1[2]), c1[3], c2[3]),
                       quality_difference |-> q[2]])

\* Variant of are_duplicates: the first argument is always stored as
\* higher_quality, whatever determine_quality_difference returns.
are_duplicates_first_is_higher(file1, file2) ==
    LET c1 == clean_title(file1.file_name)
        c2 == clean_title(file2.file_name)
    IN  IF c1[1] # c2[1] THEN None
        ELSE IF ~(IsSome(c1[2]) /\ IsSome(c2[2])) THEN None
        ELSE IF Unwrap(c1[2]) # Unwrap(c2[2]) THEN None
        ELSE IF are_different_versions(c1[3], c2[3]) THEN None
        ELSE LET q == determine_quality_difference(file1, file2)
             IN  Some([higher_quality |-> file1,
                       lower_quality |-> file2,
                       match_reason |->
                           get_formatted_reason(c1[1], Unwrap(c1[2]), c1[3], c2[3]),
                       quality_difference |-> q[2]])

\* are_duplicates: Option<DuplicateMatch>
are_duplicates(file1, file2) ==
    LET c1 == clean_title(file1.file_name)
        c2 == clean_title(file2.file_name)
    IN  IF c1[1] # c2[1] THEN None
        ELSE IF ~(IsSome(c1[2]) /\ IsSome(c2[2])) THEN None
        ELSE IF Unwrap(c1[2]) # Unwrap(c2[2]) THEN None
        ELSE IF are_different_versions(c1[3], c2[3]) THEN None
        ELSE LET match_reason ==
                     get_formatted_reason(c1[1], Unwrap(c1[2]), c1[3], c2[3])
                 q == determine_quality_difference(file1, file2)
             IN  Some([higher_quality |-> IF q[1] THEN file1 ELSE file2,
                       lower_quality |-> IF q[1] THEN file2 ELSE file1,
                       match_reason |-> match_reason,
                       quality_difference |-> q[2]])

\* Variant of compare_quality: the arms that give a `.flac` file precedence
\* are missing from the inner match.
compare_quality_no_flac_arms(file1, file2) ==
    IF /\ IsSome(file1.bitrate) /\ IsSome(file2.bitrate)
       /\ Unwrap(file1.bitrate) # Unwrap(file2.bitrate)
    THEN <<Unwrap(file1.bitrate) > Unwrap(file2.bitrate),
           "Bitrate difference: " \o ToString(Unwrap(file1.bitrate)) \o " vs "
               \o ToString(Unwrap(file2.bitrate)) \o " kbps">>
    ELSE IF file1.size_bytes # file2.size_bytes
    THEN <<file1.size_bytes > file2.size_bytes,
           "Size difference: " \o format_mb(file1.size_bytes) \o " MB vs "
               \o format_mb(file2.size_bytes) \o " MB">>
    ELSE <<TRUE, "Files are identical in size and bitrate">>

\* BitrateAnalyzer::compare_quality: <<file1_better, explanation>>.  The
\* outer match takes its first arm for two known, different bitrates, its
\* second for different sizes and its last otherwise; the inner match is on
\* the pair of ends_with(".flac") tests.
compare_quality(file1, file2) ==
    LET known == IsSome(file1.bitrate) /\ IsSome(file2.bitrate)
    IN  CASE known /\ Unwrap(file1.bitrate) # Unwrap(file2.bitrate) ->
                LET b1 == Unwrap(file1.bitrate)
                    b2 == Unwrap(file2.bitrate)
                    flacs == <<ends_with(file1.file_name, ".flac"),
                               ends_with(file2.file_name, ".flac")>>
                    file1_better ==
                        CASE flacs = <<TRUE, FALSE>> -> TRUE
                          [] flacs = <<FALSE, TRUE>> -> FALSE
                          [] OTHER -> b1 > b2
                IN  <<file1_better,
                      "Bitrate difference: " \o ToString(b1) \o " vs "
                          \o ToString(b2) \o " kbps">>
          [] ~(known /\ Unwrap(file1.bitrate) # Unwrap(file2.bitrate))
             /\ file1.size_bytes # file2.size_bytes ->
                LET file1_better == file1.size_bytes > file2.size_bytes
                    size1_mb == format_mb(file1.size_bytes)
                    size2_mb == format_mb(file2.size_bytes)
                IN  <<file1_better,
                      "Size difference: " \o size1_mb \o " MB vs " \o size2_mb \o " MB">>
          [] OTHER -> <<TRUE, "Files are identical in size and bitrate">>

(***************************************************************************)
(* Inputs.  An AudioFile (src/src/lib.rs) is modelled by the fields the    *)
(* engine reads or copies: path, file_name, size_bytes and bitrate.        *)
(***************************************************************************)
AudioFile(dir, name, bitrate, size) ==
    [path |-> dir \o "/" \o name, file_name |-> name,
     size_bytes |-> size, bitrate |-> bitrate]

\* File sizes in bytes: 8 MB and 30 MB.
Sizes == {8388608, 31457280}

\* Bitrates in kbps; None is a file whose duration could not be read.
Bitrates == {None, Some(320), Some(1000)}

\* File names of the pairwise checks.
PairNames ==
    {"Artist - Track.mp3",
     "01. Artist - Track.flac",
     "Artist - Track (Radio Edit).mp3",
     "Artist - Track (Radio Edit).flac",
     "Artist - Track (Club Mix).mp3",
     "Artist - Track (Radio Version).mp3",
     "Artist - Track (Dub).mp3",
     "Artist - Track (Dub).flac",
     "Artist - Track (2017).mp3",
     "Artist - Track (2019).mp3",
     "Artist - Track (Live).mp3",
     "Artist - Other.mp3",
     "Other - Track.mp3",
     "track.mp3",
     "track.flac"}

PairFiles ==
    {AudioFile("/music", n, b, sz) : n \in PairNames, b \in Bitrates, sz \in Sizes}

\* File names of the normalization checks: names without " - ", with and
\* without track-number prefix, with closed, empty and unclosed parentheses,
\* without extension, and the empty name.
NormNames ==
    {"track.mp3",
     "track.flac",
     "01. Track_One.mp3",
     "Track One.flac",
     "01. DJ Snake - Title Track.mp3",
     "DJ Snake - Title Track.flac",
     "01. 2 Unlimited - No Limit.mp3",
     "2 Unlimited - No Limit.flac",
     "12 Artist - Track (Dub).mp3",
     "Artist - Track (Dub).flac",
     "3.Artist - Track (Radio Edit).mp3",
     "Artist - Track (Radio Edit).flac",
     "Artist - Track (Live).mp3",
     "Artist - Track.flac",
     "Artist - Track (2017 Tour).mp3",
     "Artist - Track (oops.mp3",
     "Artist - Track (Remix.mp3",
     "Artist - Track ().mp3",
     "Artist - Track )x( b.mp3",
     "Artist - Track - Part 2",
     "noext",
     ""}

\* A `.flac` file is the larger, higher-bitrate copy.
NormFile(n) ==
    IF ends_with(n, ".flac")
    THEN AudioFile("/music", n, Some(1000), 31457280)
    ELSE AudioFile("/music", n, Some(320), 8388608)

\* The library scanned by find_duplicates: distinct files of one directory.
\* Three are copies of one track: a large mp3 of the higher bitrate, a small
\* `.flac` file of the lower bitrate and a mid-sized mp3 of unknown bitrate.
ScanFiles ==
    {AudioFile("/music", "Artist - Track.mp3", Some(1000), 31457280),
     AudioFile("/music", "01. Artist - Track.flac", Some(320), 8388608),
     AudioFile("/music", "Artist_-_Track.mp3", None, 16777216),
     AudioFile("/music", "Artist - Track (Club Mix).mp3", None, 31457280)}

\* Artist names of the multi-artist checks.
ArtistNames == {"A", "B", "Daft Punk", "X Ambassadors"}

\* Largest number of names in one artist field.
MaxArtists == 3

\* Largest number of files in one scan.
MaxFiles == 3

\* Largest size of the rayon thread pool.
MaxThreads == 2

InjectiveSeqs(S, n) ==
    {f \in [1..n -> S] : \A i, j \in 1..n : i # j => f[i] # f[j]}

(***************************************************************************)
(* State                                                                   *)
(***************************************************************************)
VARIABLES
    files,                \* find_duplicates' argument `files`
    num_threads,          \* rayon::current_num_threads()
    pc,                   \* "new" | "panicked" | "ready" | "scanning" | "done"
    progress,             \* Option<usize>: the AtomicUsize of this scan
    total_files,          \* Option<usize>: the local `total_files`
    pending,              \* outer indices i not yet taken by a worker
    worker,               \* per thread: None, or Some([i, j]) = next pair
    local,                \* per outer index: the Vec its flat_map closure built
    calls,                \* history: number of comparison_fn calls per (i, j)
    results,              \* Option<DuplicateResults>: the returned value
    file_a, file_b,       \* inputs of the pairwise checks
    parsed_a, parsed_b,   \* Option of clean_title of a's / b's file name
    match_ab, match_ba,   \* Option of are_duplicates(a, b) / (b, a)
    quality_ab,           \* Option of determine_quality_difference(a, b)
    compare_ab,           \* Option of BitrateAnalyzer::compare_quality(a, b)
    artist_list,          \* names of a multi-artist field
    artist_perm,          \* the same names in another order
    artist_out,           \* Option of normalize_artist of both, ", "-joined
    amp_out,              \* Option of normalize_artist of the " & "-joined list
    dup_dir,              \* the duplicate directory: entry name -> Entry
    dir0,                 \* history: dup_dir before the first call
    present,              \* the library paths that still hold a file
    mv_pc,                \* "start" | "idle" | "probe" | "rename" | "reported"
    mv_path,              \* its argument file_path
    counter,              \* the local `counter` of the search loop
    final_destination,    \* Option: the entry name chosen in dup_dir
    moved,                \* history: <<file_path, entry name>> of each Ok
    mv_result,            \* Option: the value the last call returned
    mv_calls              \* number of calls made

scanVars ==
    <<files, num_threads, pc, progress, total_files, pending, worker, local,
      calls, results>>

pairVars ==
    <<file_a, file_b, parsed_a, parsed_b, match_ab, match_ba, quality_ab,
      compare_ab>>

artistVars == <<artist_list, artist_perm, artist_out, amp_out>>

moveVars ==
    <<dup_dir, dir0, present, mv_pc, mv_path, counter, final_destination,
      moved, mv_result, mv_calls>>

vars == <<scanVars, pairVars, artistVars, moveVars>>

Threads == 1..num_threads

\* All index pairs of the largest scan (1-based).
IndexPairs == (1..MaxFiles) \X (1..MaxFiles)

ScanIdle ==
    /\ num_threads = 1
    /\ pc = "ready"
    /\ progress = None
    /\ total_files = None
    /\ pending = {}
    /\ worker = [w \in Threads |-> None]
    /\ local = [i \in 1..Len(files) |-> <<>>]
    /\ calls = [p \in IndexPairs |-> 0]
    /\ results = None

PairIdle ==
    /\ parsed_a = None
    /\ parsed_b = None
    /\ match_ab = None
    /\ match_ba = None
    /\ quality_ab = None
    /\ compare_ab = None

ArtistIdle ==
    /\ artist_list = <<>>
    /\ artist_perm = <<>>
    /\ artist_out = None
    /\ amp_out = None

MoveIdle ==
    /\ dup_dir = <<>>
    /\ dir0 = <<>>
    /\ present = {}
    /\ mv_pc = "idle"
    /\ mv_path = ""
    /\ counter = 0
    /\ final_destination = None
    /\ moved = <<>>
    /\ mv_result = None
    /\ mv_calls = 0

(***************************************************************************)
(* find_duplicates over parallel_compare                                   *)
(***************************************************************************)
Init ==
    /\ \E n \in 0..MaxFiles : files \in InjectiveSeqs(ScanFiles, n)
    /\ num_threads \in 1..MaxThreads
    /\ pc = "new"
    /\ progress = None
    /\ total_files = None
    /\ pending = {}
    /\ worker = [w \in Threads |-> None]
    /\ local = [i \in 1..Len(files) |-> <<>>]
    /\ calls = [p \in IndexPairs |-> 0]
    /\ results = None
    /\ file_a = AudioFile("", "", None, 0)
    /\ file_b = AudioFile("", "", None, 0)
    /\ PairIdle
    /\ ArtistIdle
    /\ MoveIdle

\* DuplicateAnalyzer::new, that is init_parallel_processing: with one current
\* thread it calls build_global and panics on an Err.  build_global returns
\* Err whenever the global pool exists, which it does after main's own
\* build_global and after current_num_threads() was called outside a pool;
\* built says whether it returned Ok (new called inside an installed
\* one-thread pool before the global pool was made).
New(built) ==
    /\ pc = "new"
    /\ pc' = IF num_threads = 1 /\ ~built THEN "panicked" ELSE "ready"
    /\ UNCHANGED <<files, num_threads, progress, total_files, pending, worker,
                   local, calls, results, pairVars, artistVars, moveVars>>

\* Variant of FindDuplicates: the early return on an empty input is missing.
FindDuplicates_no_early_return ==
    /\ pc = "ready"
    /\ progress' = Some(0)
    /\ total_files' = Some(Len(files))
    /\ pending' = 1..Len(files)
    /\ pc' = "scanning"
    /\ UNCHANGED <<files, num_threads, worker, local, calls, results, pairVars,
                   artistVars, moveVars>>

\* find_duplicates, up to the call of parallel_compare: the empty input
\* returns at once, otherwise the counter is created and the outer range
\* 0..items.len() is handed to the pool.
FindDuplicates ==
    /\ pc = "ready"
    /\ IF Len(files) = 0
       THEN /\ results' = Some([matches |-> <<>>, total_files_scanned |-> 0])
            /\ pc' = "done"
            /\ UNCHANGED <<progress, total_files, pending>>
       ELSE /\ progress' = Some(0)
            /\ total_files' = Some(Len(files))
            /\ pending' = 1..Len(files)
            /\ pc' = "scanning"
            /\ UNCHANGED results
    /\ UNCHANGED <<files, num_threads, worker, local, calls, pairVars, artistVars, moveVars>>

\* Variant of first_inner: the inner slice starts at the outer item itself
\* (&items[i..]).
first_inner_same(i) == i

\* First inner index of outer index i: items_slice = &items[i + 1..].
first_inner(i) == i + 1

\* A pool thread takes an outer index i of the parallel range.
TakeIndex(w, i) ==
    /\ pc = "scanning"
    /\ worker[w] = None
    /\ i \in pending
    /\ pending' = pending \ {i}
    /\ worker' = [worker EXCEPT ![w] = Some([i |-> i, j |-> first_inner(i)])]
    /\ UNCHANGED <<files, num_threads, pc, progress, total_files, local, calls,
                   results, pairVars, artistVars, moveVars>>

\* Variant of Compare: the counter is incremented only when the pair matches.
Compare_count_matches_only(w) ==
    /\ pc = "scanning"
    /\ worker[w] # None
    /\ LET i == Unwrap(worker[w]).i
           j == Unwrap(worker[w]).j
           result == are_duplicates(files[i], files[j])
       IN  /\ j <= Len(files)
           /\ local' = [local EXCEPT ![i] =
                           IF IsSome(result) THEN Append(@, Unwrap(result)) ELSE @]
           /\ progress' = IF IsSome(result) THEN Some(Unwrap(progress) + 1)
                          ELSE progress
           /\ calls' = [calls EXCEPT ![<<i, j>>] = @ + 1]
           /\ worker' = [worker EXCEPT ![w] = Some([i |-> i, j |-> j + 1])]
    /\ UNCHANGED <<files, num_threads, pc, total_files, pending, results, pairVars, artistVars, moveVars>>

\* One call of the comparison closure of find_duplicates on (items[i], item2):
\* are_duplicates, the atomic fetch_add on the counter, and filter_map's push
\* of a Some result onto the Vec of outer index i.
Compare(w) ==
    /\ pc = "scanning"
    /\ worker[w] # None
    /\ LET i == Unwrap(worker[w]).i
           j == Unwrap(worker[w]).j
           result == are_duplicates(files[i], files[j])
       IN  /\ j <= Len(files)
           /\ local' = [local EXCEPT ![i] =
                           IF IsSome(result) THEN Append(@, Unwrap(result)) ELSE @]
           /\ progress' = Some(Unwrap(progress) + 1)
           /\ calls' = [calls EXCEPT ![<<i, j>>] = @ + 1]
           /\ worker' = [worker EXCEPT ![w] = Some([i |-> i, j |-> j + 1])]
    /\ UNCHANGED <<files, num_threads, pc, total_files, pending, results, pairVars, artistVars, moveVars>>

\* The inner iterator of outer index i is exhausted: its Vec is complete.
FinishIndex(w) ==
    /\ pc = "scanning"
    /\ worker[w] # None
    /\ Unwrap(worker[w]).j > Len(files)
    /\ worker' = [worker EXCEPT ![w] = None]
    /\ UNCHANGED <<files, num_threads, pc, progress, total_files, pending, local,
                   calls, results, pairVars, artistVars, moveVars>>

\* Variant of flatten: only the Vec of the first outer index is kept.
flatten_first(vecs) == IF Len(vecs) = 0 THEN <<>> ELSE Head(vecs)

\* flat_map(..).collect(): the per-index Vecs in index order.
RECURSIVE flatten(_)
flatten(vecs) ==
    IF Len(vecs) = 0 THEN <<>> ELSE Head(vecs) \o flatten(Tail(vecs))

\* parallel_compare returns and find_duplicates wraps the matches.
Collect ==
    /\ pc = "scanning"
    /\ pending = {}
    /\ \A w \in Threads : worker[w] = None
    /\ results' = Some([matches |-> flatten(local),
                        total_files_scanned |-> Unwrap(total_files)])
    /\ pc' = "done"
    /\ UNCHANGED <<files, num_threads, progress, total_files, pending, worker,
                   local, calls, pairVars, artistVars, moveVars>>

Next ==
    \/ \E built \in BOOLEAN : New(built)
    \/ FindDuplicates
    \/ \E w \in Threads : \E i \in 1..Len(files) : TakeIndex(w, i)
    \/ \E w \in Threads : Compare(w)
    \/ \E w \in Threads : FinishIndex(w)
    \/ Collect

Spec == Init /\ [][Next]_vars

\* The inner iterator of the thread w moves on by one item: the step that
\* Compare(w) takes on the thread's position.
NextItem(w) ==
    /\ pc = "scanning"
    /\ worker[w] # None
    /\ Unwrap(worker[w]).j <= Len(files)
    /\ worker' = [worker EXCEPT ![w] = Some([i |-> Unwrap(worker[w]).i,
                                             j |-> Unwrap(worker[w]).j + 1])]

\* The pool runs every task it was handed, no thread stops inside its inner
\* loop and find_duplicates is not cancelled: each kind of step that stays
\* possible is eventually taken.
FairSpec ==
    /\ Spec
    /\ WF_vars(FindDuplicates)
    /\ WF_vars(\E w \in Threads : \E i \in 1..Len(files) : TakeIndex(w, i))
    /\ WF_worker(\E w \in Threads : NextItem(w))
    /\ WF_vars(\E w \in Threads : FinishIndex(w))
    /\ WF_vars(Collect)

(***************************************************************************)
(* The pair functions applied to two descriptors in both argument orders   *)
(***************************************************************************)
InitPair ==
    /\ file_a \in PairFiles
    /\ file_b \in PairFiles
    /\ file_a.path # file_b.path
    /\ PairIdle
    /\ files = <<>>
    /\ ScanIdle
    /\ ArtistIdle
    /\ MoveIdle

\* Both file names are normalized.
Normalize ==
    /\ parsed_a = None
    /\ parsed_a' = Some(clean_title(file_a.file_name))
    /\ parsed_b' = Some(clean_title(file_b.file_name))
    /\ UNCHANGED <<file_a, file_b, match_ab, match_ba, quality_ab, compare_ab, scanVars, artistVars, moveVars>>

MatchAB ==
    /\ parsed_a # None
    /\ match_ab = None
    /\ match_ab' = Some(are_duplicates(file_a, file_b))
    /\ UNCHANGED <<file_a, file_b, parsed_a, parsed_b, match_ba, quality_ab, compare_ab, scanVars, artistVars, moveVars>>

MatchBA ==
    /\ match_ab # None
    /\ match_ba = None
    /\ match_ba' = Some(are_duplicates(file_b, file_a))
    /\ UNCHANGED <<file_a, file_b, parsed_a, parsed_b, match_ab, quality_ab, compare_ab, scanVars, artistVars, moveVars>>

QualityAB ==
    /\ match_ba # None
    /\ quality_ab = None
    /\ quality_ab' = Some(determine_quality_difference(file_a, file_b))
    /\ UNCHANGED <<file_a, file_b, parsed_a, parsed_b, match_ab, match_ba, compare_ab, scanVars, artistVars, moveVars>>

CompareQualityAB ==
    /\ quality_ab # None
    /\ compare_ab = None
    /\ compare_ab' = Some(compare_quality(file_a, file_b))
    /\ UNCHANGED <<file_a, file_b, parsed_a, parsed_b, match_ab, match_ba,
                   quality_ab, scanVars, artistVars, moveVars>>

NextPair == Normalize \/ MatchAB \/ MatchBA \/ QualityAB \/ CompareQualityAB

SpecPair == InitPair /\ [][NextPair]_vars

(***************************************************************************)
(* The same functions applied to the names of the normalization checks     *)
(***************************************************************************)
InitNorm ==
    /\ file_a \in {NormFile(n) : n \in NormNames}
    /\ file_b \in {NormFile(n) : n \in NormNames}
    /\ file_a.path # file_b.path
    /\ PairIdle
    /\ files = <<>>
    /\ ScanIdle
    /\ ArtistIdle
    /\ MoveIdle

SpecNorm == InitNorm /\ [][NextPair]_vars

(***************************************************************************)
(* normalize_artist applied to one list of names written in two orders     *)
(* and with two separators                                                 *)
(***************************************************************************)
InitArtist ==
    /\ \E n \in 1..MaxArtists : artist_list \in InjectiveSeqs(ArtistNames, n)
    /\ artist_perm \in
         {q \in InjectiveSeqs(ArtistNames, Len(artist_list)) :
             {q[k] : k \in 1..Len(q)} = {artist_list[k] : k \in 1..Len(artist_list)}}
    /\ artist_out = None
    /\ amp_out = None
    /\ file_a = AudioFile("", "", None, 0)
    /\ file_b = AudioFile("", "", None, 0)
    /\ PairIdle
    /\ files = <<>>
    /\ ScanIdle
    /\ MoveIdle

NormalizeList ==
    /\ artist_list # <<>>
    /\ artist_out = None
    /\ artist_out' = Some(<<normalize_artist(join(artist_list, ", ")),
                            normalize_artist(join(artist_perm, ", "))>>)
    /\ UNCHANGED <<artist_list, artist_perm, amp_out, scanVars, pairVars, moveVars>>

NormalizeAmpersand ==
    /\ artist_list # <<>>
    /\ amp_out = None
    /\ amp_out' = Some(normalize_artist(join(artist_list, " & ")))
    /\ UNCHANGED <<artist_list, artist_perm, artist_out, scanVars, pairVars, moveVars>>

NextArtist == NormalizeList \/ NormalizeAmpersand

SpecArtist == InitArtist /\ [][NextArtist]_vars

(***************************************************************************)
(* FileManager::move_duplicate called repeatedly on one duplicate          *)
(* directory, as the duplicates command does: ensure_directory, the loop    *)
(* of move_duplicate calls, then generate_duplicate_report.  The directory *)
(* maps each entry name to its kind ("file", or "dangling" for a symbolic  *)
(* link whose target is missing) and the content stored under it:          *)
(* "old:<name>" for an entry that was there before the first call, the     *)
(* source path for a file moved in, "report" for the report.               *)
(***************************************************************************)
\* The largest number of move_duplicate calls.
MaxMoves == 3

\* The library files that can be handed to move_duplicate.
LibraryFiles == {"/a/t.mp3", "/b/t.mp3", "/a/noext"}

\* The arguments of the calls: the library files, a path without a file
\* name and a file path with a trailing '/'.
MovePaths == LibraryFiles \cup {"/a/..", "/a/t.mp3/"}

\* The entry names the duplicate directory may hold before the first call,
\* and those of them that may be dangling symbolic links.
DirNames == {"t.mp3", "t.mp3_duplicate_1.mp3", "noext", "duplicate_report.csv"}

LinkNames == {"t.mp3", "t.mp3_duplicate_1.mp3"}

Entry(kind, content) == [kind |-> kind, content |-> content]

Ok(v) == <<"Ok", v>>

Err(e) == <<"Err", e>>

\* Path::components without the root: the pieces between '/', with empty
\* pieces (repeated and trailing '/') and "." pieces dropped.
components(path) ==
    SelectSeq(split(path, "/"), LAMBDA c : c # "" /\ c # ".")

\* Path::file_name: the last component, None when there is none or it is
\* "..".
file_name_of(path) ==
    LET comps == components(path)
    IN  IF Len(comps) = 0 THEN None
        ELSE IF comps[Len(comps)] = ".." THEN None
        ELSE Some(comps[Len(comps)])

\* file_path.extension().and_then(to_str).unwrap_or(""): the text after the
\* last '.' of the file name, "" when there is no '.' after its first
\* character.
extension_of(path) ==
    LET name == Unwrap(file_name_of(path))
        dot == rfind(name, ".")
    IN  IF dot <= 1 THEN "" ELSE SubSeq(name, dot + 1, Len(name))

\* format!("{}_{}_{}.{}", file_stem, "duplicate", counter, extension)
new_name(file_stem, c, extension) ==
    file_stem \o "_" \o "duplicate" \o "_" \o ToString(c) \o "." \o extension

\* self.duplicate_dir.join(name).exists(): the link is followed, so an entry
\* that is a dangling symbolic link does not exist.
exists(name) == name \in DOMAIN dup_dir /\ dup_dir[name].kind # "dangling"

InitMove ==
    /\ \E S \in SUBSET DirNames : \E L \in SUBSET (S \cap LinkNames) :
          dup_dir = [n \in S |->
                        Entry(IF n \in L THEN "dangling" ELSE "file", "old:" \o n)]
    /\ dir0 = dup_dir
    /\ present = LibraryFiles
    /\ mv_pc = "start"
    /\ mv_path = ""
    /\ counter = 0
    /\ final_destination = None
    /\ moved = <<>>
    /\ mv_result = None
    /\ mv_calls = 0
    /\ file_a = AudioFile("", "", None, 0)
    /\ file_b = AudioFile("", "", None, 0)
    /\ PairIdle
    /\ files = <<>>
    /\ ScanIdle
    /\ ArtistIdle

\* FileManager::ensure_directory as main calls it before the loop:
\* create_dir_all on the duplicate directory adds no entry.
EnsureDirectory ==
    /\ mv_pc = "start"
    /\ mv_pc' = "idle"
    /\ UNCHANGED <<dup_dir, dir0, present, mv_path, counter, final_destination,
                   moved, mv_result, mv_calls, scanVars, pairVars, artistVars>>

\* move_duplicate from its entry to the choice between the plain destination
\* and the search loop.
MoveDuplicate(path) ==
    /\ mv_pc = "idle"
    /\ mv_calls < MaxMoves
    /\ mv_calls' = mv_calls + 1
    /\ mv_path' = path
    /\ IF file_name_of(path) = None
       THEN /\ mv_result' = Some(Err("Invalid file path"))
            /\ UNCHANGED <<mv_pc, counter, final_destination>>
       ELSE IF exists(Unwrap(file_name_of(path)))
       THEN /\ counter' = 1
            /\ mv_pc' = "probe"
            /\ final_destination' = None
            /\ mv_result' = None
       ELSE /\ final_destination' = file_name_of(path)
            /\ mv_pc' = "rename"
            /\ mv_result' = None
            /\ UNCHANGED counter
    /\ UNCHANGED <<dup_dir, dir0, present, moved, scanVars, pairVars, artistVars>>

\* One iteration of the loop: break with new_path when it does not exist,
\* otherwise counter += 1.
SearchStep ==
    /\ mv_pc = "probe"
    /\ LET file_stem == Unwrap(file_name_of(mv_path))
           new_path == new_name(file_stem, counter, extension_of(mv_path))
       IN  IF ~exists(new_path)
           THEN /\ final_destination' = Some(new_path)
                /\ mv_pc' = "rename"
                /\ UNCHANGED counter
           ELSE /\ counter' = counter + 1
                /\ UNCHANGED <<final_destination, mv_pc>>
    /\ UNCHANGED <<dup_dir, dir0, present, mv_path, moved, mv_result, mv_calls,
                   scanVars, pairVars, artistVars>>

\* fs::rename and the fallback.  outcome "moved": the rename, or the copy and
\* the removal after a cross-device error, succeeded; "copied_only": the copy
\* succeeded and the removal failed; "failed": the rename failed with another
\* error, or the copy failed.  A source that no longer exists, or a file path
\* with a trailing '/', always fails.  Both rename and copy replace what the
\* destination entry held.
Rename(outcome) ==
    /\ mv_pc = "rename"
    /\ LET dest == Unwrap(final_destination)
       IN  IF mv_path \notin present \/ outcome = "failed"
           THEN /\ mv_result' = Some(Err("io"))
                /\ UNCHANGED <<dup_dir, present, moved>>
           ELSE /\ dup_dir' = (dest :> Entry("file", mv_path)) @@ dup_dir
                /\ IF outcome = "moved"
                   THEN /\ present' = present \ {mv_path}
                        /\ moved' = Append(moved, <<mv_path, dest>>)
                        /\ mv_result' = Some(Ok(dest))
                   ELSE /\ mv_result' = Some(Err("io"))
                        /\ UNCHANGED <<present, moved>>
    /\ mv_pc' = "idle"
    /\ UNCHANGED <<dir0, mv_path, counter, final_destination, mv_calls,
                   scanVars, pairVars, artistVars>>

\* Reporter::generate_duplicate_report as main calls it after the loop:
\* Writer::from_path creates or truncates duplicate_report.csv in the
\* duplicate directory, unless the file cannot be opened.
GenerateReport(opened) ==
    /\ mv_pc = "idle"
    /\ mv_pc' = "reported"
    /\ dup_dir' = IF opened
                  THEN ("duplicate_report.csv" :> Entry("file", "report")) @@ dup_dir
                  ELSE dup_dir
    /\ UNCHANGED <<dir0, present, mv_path, counter, final_destination, moved,
                   mv_result, mv_calls, scanVars, pairVars, artistVars>>

NextMove ==
    \/ EnsureDirectory
    \/ \E path \in MovePaths : MoveDuplicate(path)
    \/ SearchStep
    \/ \E outcome \in {"moved", "copied_only", "failed"} : Rename(outcome)
    \/ \E opened \in BOOLEAN : GenerateReport(opened)

SpecMove == InitMove /\ [][NextMove]_vars

\* A call that was started runs on: the loop iterates and the rename returns.
FairSpecMove ==
    /\ SpecMove
    /\ WF_vars(SearchStep)
    /\ WF_vars(\E outcome \in {"moved", "copied_only", "failed"} : Rename(outcome))

(***************************************************************************)
(* Properties of the scan (specification Spec)                             *)
(***************************************************************************)

\* The number of times the pair (i, j) must be compared in a finished scan.
ExpectedCalls(p) == IF p[1] < p[2] /\ p[2] <= Len(files) THEN 1 ELSE 0

\* C1: for n files the pair comparison is invoked exactly once for every index
\* pair i < j < n and never for i = j or i > j, whatever thread takes which
\* outer index and however the threads interleave: no pair is ever compared
\* more often than that, and a finished scan has compared each exactly so.
C1_EveryPairExactlyOnce ==
    /\ \A p \in IndexPairs : calls[p] <= ExpectedCalls(p)
    /\ pc = "done" => \A p \in IndexPairs : calls[p] = ExpectedCalls(p)

\* A finished scan of MaxFiles files on several threads compared the last pair.
C1_Witness ==
    /\ pc = "done"
    /\ Len(files) = MaxFiles
    /\ num_threads > 1
    /\ calls[<<MaxFiles - 1, MaxFiles>>] = 1

\* The index pairs i < j of fs that are_duplicates reports as a match.
MatchingPairs(fs) ==
    {p \in (1..Len(fs)) \X (1..Len(fs)) :
        p[1] < p[2] /\ IsSome(are_duplicates(fs[p[1]], fs[p[2]]))}

MatchOf(fs, p) == Unwrap(are_duplicates(fs[p[1]], fs[p[2]]))

\* C2: the set of matches a scan returns, and the multiset of their
\* match_reason strings, is a function of the file list alone: it is the same
\* for every thread count and every schedule.
C2_MatchesIndependentOfSchedule ==
    pc = "done" =>
        LET ms == Unwrap(results).matches
            mp == MatchingPairs(files)
        IN  /\ {ms[k] : k \in 1..Len(ms)} = {MatchOf(files, p) : p \in mp}
            /\ Len(ms) = Cardinality(mp)
            /\ \A k \in 1..Len(ms) :
                 Cardinality({h \in 1..Len(ms) : ms[h].match_reason = ms[k].match_reason})
                 = Cardinality({p \in mp :
                       MatchOf(files, p).match_reason = ms[k].match_reason})

\* A scan on several threads that returned matches of more than one outer index.
C2_Witness ==
    /\ pc = "done"
    /\ num_threads > 1
    /\ Len(local) >= 3
    /\ local[1] # <<>>
    /\ local[2] # <<>>
    /\ Len(Unwrap(results).matches) >= 2

\* C15: find_duplicates on an empty list returns matches = [] and
\* total_files_scanned = 0 at once: the scan never runs, no pair is
\* compared, no progress counter exists and no thread takes work.
C15_EmptyInputReturnsAtOnce ==
    Len(files) = 0 =>
        /\ pc # "scanning"
        /\ progress = None
        /\ total_files = None
        /\ pending = {}
        /\ \A w \in Threads : worker[w] = None
        /\ \A p \in IndexPairs : calls[p] = 0
        /\ pc # "done" => results = None
        /\ pc = "done" =>
             results = Some([matches |-> <<>>, total_files_scanned |-> 0])

\* find_duplicates returned for an empty list with several pool threads.
C15_Witness ==
    /\ Len(files) = 0
    /\ pc = "done"
    /\ num_threads > 1
    /\ results = Some([matches |-> <<>>, total_files_scanned |-> 0])

\* The number of comparison calls made so far.
RECURSIVE SumCalls(_)
SumCalls(S) ==
    IF S = {} THEN 0
    ELSE LET p == CHOOSE q \in S : TRUE IN calls[p] + SumCalls(S \ {p})

PairCount(n) == (n * (n - 1)) \div 2

\* The counter exists and counts every comparison call made so far.
ProgressCountsCalls ==
    (Len(files) >= 1 /\ pc \in {"scanning", "done"})
        => progress = Some(SumCalls(IndexPairs))

\* A step leaves the counter alone, creates it at 0 or adds exactly 1 to it.
ProgressStep ==
    \/ progress' = progress
    \/ progress = None /\ progress' = Some(0)
    \/ progress # None /\ progress' = Some(Unwrap(progress) + 1)

\* The scan of n >= 1 files returned: the counter is n(n-1)/2 and the matches
\* are those of the file list, whatever the counter went through.
ProgressAtReturn ==
    (Len(files) >= 1 /\ pc = "done") =>
        /\ progress = Some(PairCount(Len(files)))
        /\ LET ms == Unwrap(results).matches
           IN  {ms[k] : k \in 1..Len(ms)} =
                   {MatchOf(files, p) : p \in MatchingPairs(files)}

\* C16: within one scan of n >= 1 files the progress counter starts at 0,
\* never decreases, grows by exactly 1 with each compared pair under every
\* interleaving of the threads, is n(n-1)/2 when the scan returns, and a
\* call of find_duplicates always returns; the matches do not depend on the
\* counter.
C16_ProgressCounter ==
    /\ [](ProgressCountsCalls /\ ProgressAtReturn)
    /\ [][ProgressStep]_vars
    /\ (pc = "ready") ~> (pc = "done")

\* A scan of MaxFiles files on several threads returned with a full counter.
C16_Witness ==
    /\ pc = "done"
    /\ Len(files) = MaxFiles
    /\ num_threads > 1
    /\ progress = Some(PairCount(MaxFiles))

\* The record rec was built from the index pair p of the input.
StemsFrom(rec, p) ==
    LET f1 == files[p[1]]
        f2 == files[p[2]]
        better == determine_quality_difference(f1, f2)[1]
    IN  /\ p[1] < p[2]
        /\ p[2] <= Len(files)
        /\ rec.higher_quality = (IF better THEN f1 ELSE f2)
        /\ rec.lower_quality = (IF better THEN f2 ELSE f1)

\* The records of the sequence ms stem from distinct index pairs, one each.
FromDistinctPairs(ms) ==
    /\ \A k \in 1..Len(ms) :
         Cardinality({p \in IndexPairs : StemsFrom(ms[k], p)}) = 1
    /\ \A k, h \in 1..Len(ms) :
         (k # h) => \A p \in IndexPairs : ~(StemsFrom(ms[k], p) /\ StemsFrom(ms[h], p))

\* C19: every match stems from exactly one index pair i < j: higher_quality
\* and lower_quality are files[i] and files[j], one each, higher_quality the
\* one determine_quality_difference designates; a pair gives at most one
\* record, so there are at most n(n-1)/2, and the input is never changed.
C19_MatchProvenance ==
    /\ [](/\ FromDistinctPairs(flatten(local))
          /\ Len(flatten(local)) <= PairCount(Len(files))
          /\ pc = "done" =>
               /\ FromDistinctPairs(Unwrap(results).matches)
               /\ Len(Unwrap(results).matches) <= PairCount(Len(files)))
    /\ [][files' = files]_vars

\* A returned match whose higher_quality is the second file of its pair.
C19_Witness ==
    /\ pc = "done"
    /\ Len(files) >= 2
    /\ \E k \in 1..Len(Unwrap(results).matches) :
         \E p \in IndexPairs :
            /\ StemsFrom(Unwrap(results).matches[k], p)
            /\ Unwrap(results).matches[k].higher_quality = files[p[2]]

\* The sets of two or more input indices whose files match pairwise.
MatchingSets ==
    {S \in SUBSET (1..Len(files)) :
        /\ Cardinality(S) >= 2
        /\ \A i, j \in S : (i < j) => <<i, j>> \in MatchingPairs(files)}

\* C20: in a returned scan every set of pairwise matching files has a file
\* that no match reports as lower_quality, so moving every lower_quality
\* file leaves a copy in place.
C20_SomeCopyStays ==
    pc = "done" =>
        \A S \in MatchingSets :
            \E i \in S :
                \A k \in 1..Len(Unwrap(results).matches) :
                    Unwrap(results).matches[k].lower_quality # files[i]

(***************************************************************************)
(* Properties of the pair functions (specification SpecPair)               *)
(***************************************************************************)
\* The normalized names, once Normalize has run.
ParsedA == Unwrap(parsed_a)

ParsedB == Unwrap(parsed_b)

\* Both files have a title part and agree on normalized artist and title.
SameArtistAndTitle ==
    /\ ParsedA[1] = ParsedB[1]
    /\ IsSome(ParsedA[2])
    /\ ParsedA[2] = ParsedB[2]

\* The marker keywords of a version annotation; an annotation without a
\* keyword and with at least YearDigits digits carries the marker "year".
Markers(v) ==
    LET keywords ==
            {version_markers[k] : k \in
                {h \in 1..Len(version_markers) : contains(to_lowercase(v), version_markers[h])}}
    IN  IF keywords # {} THEN keywords
        ELSE IF count_digits(v) >= YearDigits THEN {"year"}
        ELSE {}

BothVersioned ==
    /\ IsSome(ParsedA[3]) /\ Markers(Unwrap(ParsedA[3])) # {}
    /\ IsSome(ParsedB[3]) /\ Markers(Unwrap(ParsedB[3])) # {}

\* C3: when a and b match, are_duplicates(a, b) and are_duplicates(b, a) name
\* the same file as higher_quality, also for equal bitrate and equal size.
C3_WinnerIndependentOfOrder ==
    (/\ IsSome(match_ab) /\ IsSome(Unwrap(match_ab))
     /\ IsSome(match_ba) /\ IsSome(Unwrap(match_ba)))
    => Unwrap(Unwrap(match_ab)).higher_quality = Unwrap(Unwrap(match_ba)).higher_quality

\* Both bitrates are known and differ, or the sizes differ.
MeasurablyDifferent(f, g) ==
    \/ /\ IsSome(f.bitrate) /\ IsSome(g.bitrate)
       /\ Unwrap(f.bitrate) # Unwrap(g.bitrate)
    \/ f.size_bytes # g.size_bytes

\* C3 (amended): when a and b match, both argument orders name the same file
\* as higher_quality if the bitrates are both known and differ or the sizes
\* differ; otherwise each order keeps its own first argument.
C3_WinnerIndependentOfOrderUnlessTie ==
    (/\ IsSome(match_ab) /\ IsSome(Unwrap(match_ab))
     /\ IsSome(match_ba) /\ IsSome(Unwrap(match_ba)))
    => IF MeasurablyDifferent(file_a, file_b)
       THEN Unwrap(Unwrap(match_ab)).higher_quality
                = Unwrap(Unwrap(match_ba)).higher_quality
       ELSE /\ Unwrap(Unwrap(match_ab)).higher_quality = file_a
            /\ Unwrap(Unwrap(match_ba)).higher_quality = file_b

\* Both orders matched an mp3 of the higher bitrate (first argument) with a
\* `.flac` file of the lower bitrate, and both kept the `.flac` file.
C3_Witness ==
    /\ IsSome(match_ab) /\ IsSome(Unwrap(match_ab))
    /\ IsSome(match_ba) /\ IsSome(Unwrap(match_ba))
    /\ IsSome(file_a.bitrate) /\ IsSome(file_b.bitrate)
    /\ Unwrap(file_a.bitrate) > Unwrap(file_b.bitrate)
    /\ ends_with(file_b.file_name, ".flac") /\ ~ends_with(file_a.file_name, ".flac")
    /\ Unwrap(Unwrap(match_ab)).higher_quality = file_b
    /\ Unwrap(Unwrap(match_ba)).higher_quality = file_b

\* C4: are_duplicates(a, b) reports a match iff are_duplicates(b, a) does.
C4_VerdictSymmetric ==
    (IsSome(match_ab) /\ IsSome(match_ba))
    => (IsSome(Unwrap(match_ab)) <=> IsSome(Unwrap(match_ba)))

\* Both orders were evaluated on files that agree on artist and title and of
\* which only the second has a version: neither order matched.
C4_Witness ==
    /\ IsSome(match_ab) /\ IsSome(match_ba)
    /\ SameArtistAndTitle
    /\ ParsedA[3] = None /\ IsSome(ParsedB[3])
    /\ Unwrap(match_ab) = None /\ Unwrap(match_ba) = None

\* C5: two files with the same normalized artist and title whose annotations
\* both carry marker keywords match whenever the keyword sets share a keyword
\* or the annotation texts are identical.
C5_SharedMarkerMatches ==
    (/\ IsSome(match_ab)
     /\ SameArtistAndTitle
     /\ BothVersioned
     /\ \/ Markers(Unwrap(ParsedA[3])) \cap Markers(Unwrap(ParsedB[3])) # {}
        \/ ParsedA[3] = ParsedB[3])
    => IsSome(Unwrap(match_ab))

\* C6: two files with the same normalized artist and title whose annotations
\* both carry marker keywords, share none and differ in text never match.
C6_DisjointMarkersNeverMatch ==
    (/\ IsSome(match_ab)
     /\ SameArtistAndTitle
     /\ BothVersioned
     /\ Markers(Unwrap(ParsedA[3])) \cap Markers(Unwrap(ParsedB[3])) = {}
     /\ ParsedA[3] # ParsedB[3])
    => Unwrap(match_ab) = None

\* '(Radio Edit)' was compared with '(Club Mix)' and no match came back.
C6_Witness ==
    /\ IsSome(match_ab)
    /\ SameArtistAndTitle
    /\ ParsedA[3] = Some("radio edit")
    /\ ParsedB[3] = Some("club mix")
    /\ Unwrap(match_ab) = None

\* The two files agree on normalized artist and title, whether or not they
\* have a title part.
SameFields ==
    /\ ParsedA[1] = ParsedB[1]
    /\ ParsedA[2] = ParsedB[2]

\* C7: for two files with identical normalized artist and title, no version
\* on either side gives a match, a version on exactly one side gives none.
C7_VersionPresenceAnyName ==
    (IsSome(match_ab) /\ SameFields)
    => /\ (ParsedA[3] = None /\ ParsedB[3] = None) => IsSome(Unwrap(match_ab))
       /\ (IsSome(ParsedA[3]) # IsSome(ParsedB[3])) => Unwrap(match_ab) = None

\* C7 (amended): for two files that both have a title part and identical
\* normalized artist and title, no version on either side gives a match and
\* a version on exactly one side gives none; two files without a title part
\* and with identical fields do not match.
C7_VersionPresence ==
    /\ (IsSome(match_ab) /\ SameArtistAndTitle)
       => /\ (ParsedA[3] = None /\ ParsedB[3] = None) => IsSome(Unwrap(match_ab))
          /\ (IsSome(ParsedA[3]) # IsSome(ParsedB[3])) => Unwrap(match_ab) = None
    /\ (IsSome(match_ab) /\ SameFields /\ ParsedA[2] = None)
       => /\ ParsedA[3] = None /\ ParsedB[3] = None
          /\ Unwrap(match_ab) = None

\* Two files with a title part, the same artist and title and no version were
\* compared and match.
C7_Witness ==
    /\ IsSome(match_ab)
    /\ SameArtistAndTitle
    /\ ParsedA[3] = None
    /\ ParsedB[3] = None
    /\ IsSome(Unwrap(match_ab))

\* A file without a version was compared with its '(Radio Edit)': no match.
C7_OneSided ==
    /\ IsSome(match_ab)
    /\ SameArtistAndTitle
    /\ ParsedA[3] = None
    /\ ParsedB[3] = Some("radio edit")
    /\ Unwrap(match_ab) = None

\* Two files without a title part and with the same cleaned name were
\* compared: no match.
C7_NoTitlePart ==
    /\ IsSome(match_ab)
    /\ SameFields
    /\ ParsedA = <<"track", None, None>>
    /\ Unwrap(match_ab) = None

\* An annotation without a marker keyword and with at least YearDigits digits.
IsBareYear(version) ==
    /\ IsSome(version)
    /\ Markers(Unwrap(version)) = {"year"}

\* C8: an annotation with no marker keyword and at least 4 digits is a version
\* marker, and two files with the same normalized artist and title whose
\* annotations are both bare years match.
C8_BareYearsMatch ==
    (/\ IsSome(match_ab)
     /\ SameArtistAndTitle
     /\ IsBareYear(ParsedA[3])
     /\ IsBareYear(ParsedB[3]))
    => /\ is_version_marker(Unwrap(ParsedA[3]))
       /\ is_version_marker(Unwrap(ParsedB[3]))
       /\ IsSome(Unwrap(match_ab))

\* C9: files whose normalized artists differ or whose normalized titles differ
\* never match, whatever their versions, bitrates and sizes.
C9_ExactFieldPolicy ==
    (/\ IsSome(match_ab)
     /\ \/ ParsedA[1] # ParsedB[1]
        \/ ParsedA[2] # ParsedB[2])
    => Unwrap(match_ab) = None

\* Same artist, different titles, no version on either side: no match.
C9_Witness ==
    /\ IsSome(match_ab)
    /\ ParsedA[1] = ParsedB[1]
    /\ IsSome(ParsedA[2]) /\ IsSome(ParsedB[2])
    /\ ParsedA[2] # ParsedB[2]
    /\ ParsedA[3] = None /\ ParsedB[3] = None
    /\ Unwrap(match_ab) = None

IsFlac(f) == ends_with(f.file_name, ".flac")

BitratesDiffer(f, g) ==
    /\ IsSome(f.bitrate) /\ IsSome(g.bitrate)
    /\ Unwrap(f.bitrate) # Unwrap(g.bitrate)

\* The two-decimal megabyte text of the modelled sizes.
SizeText == (8388608 :> "8.00") @@ (31457280 :> "30.00")

\* C10: determine_quality_difference decides in this order: (1) both bitrates
\* known and different: the only `.flac` file wins, otherwise the higher
\* bitrate; (2) else sizes differ: the larger file wins; (3) else the first
\* argument.  The explanation names the bitrates, the sizes, or 'identical'.
C10_DecisionOrder ==
    IsSome(quality_ab) =>
        LET q == Unwrap(quality_ab)
        IN  IF BitratesDiffer(file_a, file_b)
            THEN /\ q[1] = (IF IsFlac(file_a) # IsFlac(file_b) THEN IsFlac(file_a)
                            ELSE Unwrap(file_a.bitrate) > Unwrap(file_b.bitrate))
                 /\ starts_with(q[2], "Bitrate")
                 /\ contains(q[2], ToString(Unwrap(file_a.bitrate)) \o " vs "
                                    \o ToString(Unwrap(file_b.bitrate)))
            ELSE IF file_a.size_bytes # file_b.size_bytes
            THEN /\ q[1] = (file_a.size_bytes > file_b.size_bytes)
                 /\ starts_with(q[2], "Size")
                 /\ contains(q[2], SizeText[file_a.size_bytes] \o " MB vs "
                                    \o SizeText[file_b.size_bytes] \o " MB")
            ELSE /\ q[1] = TRUE
                 /\ contains(q[2], "identical")

\* A `.flac` file of the lower bitrate was compared with a file of another
\* format and won.
C10_Witness ==
    /\ IsSome(quality_ab)
    /\ BitratesDiffer(file_a, file_b)
    /\ IsFlac(file_a) /\ ~IsFlac(file_b)
    /\ Unwrap(file_a.bitrate) < Unwrap(file_b.bitrate)
    /\ Unwrap(quality_ab)[1] = TRUE

(***************************************************************************)
(* Properties of normalization (specification SpecNorm)                    *)
(***************************************************************************)

\* A file name with its extension, brackets, underscores and track-number
\* prefix removed.
CleanedName(name) ==
    LET dot == rfind(name, ".")
        stem == IF dot = 0 THEN name ELSE SubSeq(name, 1, dot - 1)
    IN  title_regex_replace(
            trim(replace(replace(replace(stem, "[", ""), "]", ""), "_", " ")))

HasSeparator(name) == contains(CleanedName(name), " - ")

\* The text after the first " - " of a cleaned name that has one.
TitlePart(name) ==
    LET c == CleanedName(name)
    IN  SubSeq(c, find(c, " - ") + 3, Len(c))

\* C11: a name whose cleaned form has no " - " normalizes to the cleaned
\* string as both artist and title, with no version, and two such files with
\* the same cleaned string are compared by it and match.
C11_WholeNameIsArtistAndTitle ==
    (IsSome(parsed_a) /\ ~HasSeparator(file_a.file_name))
    => /\ ParsedA = <<CleanedName(file_a.file_name),
                      Some(CleanedName(file_a.file_name)), None>>
       /\ (IsSome(match_ab) /\ ParsedA = ParsedB) => IsSome(Unwrap(match_ab))

\* C11 (amended): a name whose cleaned form has no " - " normalizes to the
\* cleaned string as the artist, with no title and no version, and such a
\* file matches no file.
C11_WholeNameIsArtistOnly ==
    (IsSome(parsed_a) /\ ~HasSeparator(file_a.file_name))
    => /\ ParsedA = <<CleanedName(file_a.file_name), None, None>>
       /\ IsSome(match_ab) => Unwrap(match_ab) = None
       /\ IsSome(match_ba) => Unwrap(match_ba) = None

\* Two names without " - " and with the same cleaned form were compared in
\* both orders and did not match.
C11_Witness ==
    /\ IsSome(match_ab) /\ IsSome(match_ba)
    /\ ~HasSeparator(file_a.file_name)
    /\ ParsedA = ParsedB
    /\ ParsedA[1] = "Track One"
    /\ Unwrap(match_ab) = None /\ Unwrap(match_ba) = None

\* The title part has a last '(' with a ')' after it.
HasClosedParen(t) ==
    /\ rfind(t, "(") # 0
    /\ find(SubSeq(t, rfind(t, "("), Len(t)), ")") # 0

\* The text between that '(' and the next ')'.
Enclosed(t) ==
    LET open == rfind(t, "(")
        rest == SubSeq(t, open + 1, Len(t))
    IN  trim(SubSeq(rest, 1, find(rest, ")") - 1))

BeforeParen(t) == SubSeq(t, 1, rfind(t, "(") - 1)

\* C12: when the title part has a last '(' followed by a ')', the enclosed
\* text is the version and the normalized title is the lower-cased, trimmed
\* text before that '(', whatever the enclosed text is.
C12_ParenAlwaysRemoved ==
    (/\ IsSome(parsed_a)
     /\ HasSeparator(file_a.file_name)
     /\ HasClosedParen(TitlePart(file_a.file_name)))
    => LET t == TitlePart(file_a.file_name)
       IN  /\ ParsedA[2] = Some(to_lowercase(trim(BeforeParen(t))))
           /\ ParsedA[3] = Some(to_lowercase(Enclosed(t)))

\* C12 (amended): the enclosed text is taken as the version and removed from
\* the title only when it contains a marker keyword or at least YearDigits
\* digits; otherwise the parenthetical stays in the title and there is no
\* version.
C12_ParenRemovedWhenMarker ==
    (/\ IsSome(parsed_a)
     /\ HasSeparator(file_a.file_name)
     /\ HasClosedParen(TitlePart(file_a.file_name)))
    => LET t == TitlePart(file_a.file_name)
       IN  IF Markers(Enclosed(t)) # {}
           THEN /\ ParsedA[2] = Some(to_lowercase(trim(BeforeParen(t))))
                /\ ParsedA[3] = Some(to_lowercase(Enclosed(t)))
           ELSE /\ ParsedA[2] = Some(to_lowercase(trim(t)))
                /\ ParsedA[3] = None

\* '(Live)' has no marker keyword and stayed in the normalized title.
C12_Witness ==
    /\ IsSome(parsed_a)
    /\ file_a.file_name = "Artist - Track (Live).mp3"
    /\ ParsedA[2] = Some("track (live)")
    /\ ParsedA[3] = None

\* The name without its extension, and whether it has one.
Stem(name) ==
    IF rfind(name, ".") = 0 THEN name ELSE SubSeq(name, 1, rfind(name, ".") - 1)

HasExtension(name) == rfind(name, ".") # 0

\* p is a track-number prefix: digits, then an optional dot, then whitespace
\* only.
IsTrackPrefix(p) ==
    /\ Len(p) > 0
    /\ is_ascii_digit(Head(p))
    /\ trim_start(skip_dot(skip_digits(p))) = ""

\* The names a and b differ only by a track-number prefix of a and by their
\* extensions.
DifferByTrackPrefix(a, b) ==
    /\ HasExtension(a)
    /\ HasExtension(b)
    /\ \E k \in 1..Len(Stem(a)) :
          /\ IsTrackPrefix(SubSeq(Stem(a), 1, k))
          /\ SubSeq(Stem(a), k + 1, Len(Stem(a))) = Stem(b)
          /\ Len(Stem(b)) > 0
          /\ ~is_whitespace(Head(Stem(b)))

\* C17: two names that differ only by a leading track-number prefix and by
\* their extension normalize to the same (artist, title, version) triple and
\* the two files are reported as a match.
C17_TrackPrefixIgnored ==
    (IsSome(match_ab) /\ DifferByTrackPrefix(file_a.file_name, file_b.file_name))
    => /\ ParsedA = ParsedB
       /\ IsSome(Unwrap(match_ab))

\* The value is a string / an optional string.
IsString(v) == v \in STRING

IsOptString(v) == v = None \/ (Len(v) = 1 /\ IsString(v[1]))

\* Every slice clean_title takes of the name lies within the string it is
\* taken from, with start <= end (0-based byte offsets as in the source).
SlicesInBounds(name) ==
    /\ rfind(name, ".") # 0 => rfind(name, ".") - 1 <= Len(name)
    /\ HasSeparator(name) =>
         LET t == TitlePart(name)
             paren_start == rfind(t, "(") - 1
             paren_end == find(SubSeq(t, paren_start + 1, Len(t)), ")") - 1
         IN  (paren_start >= 0) =>
                /\ paren_start <= Len(t)
                /\ (paren_end >= 0) =>
                      /\ paren_start + 1 <= paren_start + paren_end
                      /\ paren_start + paren_end <= Len(t)

\* The title part of the name has a last '(' with no ')' after it.
UnmatchedParen(name) ==
    /\ HasSeparator(name)
    /\ rfind(TitlePart(name), "(") # 0
    /\ ~HasClosedParen(TitlePart(name))

\* C18: clean_title and are_duplicates return a value for every name (empty,
\* without extension, without " - ", with an unclosed '(' or with "()"): a
\* triple of a string and two optional strings, and None or a match; no slice
\* is out of range; with an unclosed '(' there is no version and the title is
\* the whole title part.
C18_Total ==
    /\ IsSome(parsed_a) =>
         /\ Len(ParsedA) = 3
         /\ IsString(ParsedA[1])
         /\ IsOptString(ParsedA[2])
         /\ IsOptString(ParsedA[3])
         /\ SlicesInBounds(file_a.file_name)
         /\ UnmatchedParen(file_a.file_name) =>
               /\ ParsedA[3] = None
               /\ ParsedA[2] = Some(to_lowercase(trim(TitlePart(file_a.file_name))))
    /\ IsSome(match_ab) =>
         \/ Unwrap(match_ab) = None
         \/ /\ Len(Unwrap(match_ab)) = 1
            /\ Unwrap(Unwrap(match_ab)).higher_quality \in {file_a, file_b}
            /\ Unwrap(Unwrap(match_ab)).lower_quality \in {file_a, file_b}
            /\ IsString(Unwrap(Unwrap(match_ab)).match_reason)
            /\ IsString(Unwrap(Unwrap(match_ab)).quality_difference)

\* A name with an unclosed '(' before a marker keyword was normalized and
\* compared with the empty name.
C18_Witness ==
    /\ IsSome(match_ab)
    /\ file_a.file_name = "Artist - Track (Remix.mp3"
    /\ ParsedA = <<"artist", Some("track (remix"), None>>
    /\ file_b.file_name = ""
    /\ ParsedB = <<"", None, None>>
    /\ Unwrap(match_ab) = None

\* C22: compare_quality and determine_quality_difference return the same
\* winner flag and the same explanation for every ordered pair of
\* descriptors: known or unknown bitrates, equal or different sizes, `.flac`
\* or other names.
C22_QualityFunctionsAgree ==
    IsSome(compare_ab) =>
        /\ Unwrap(compare_ab)[1] = Unwrap(quality_ab)[1]
        /\ Unwrap(compare_ab)[2] = Unwrap(quality_ab)[2]

\* Both functions were applied to a non-`.flac` file of the higher bitrate
\* and a `.flac` file of the lower one, and both chose the `.flac` file.
C22_Witness ==
    /\ IsSome(compare_ab)
    /\ ~IsFlac(file_a) /\ IsFlac(file_b)
    /\ file_a.bitrate = Some(1000) /\ file_b.bitrate = Some(320)
    /\ Unwrap(compare_ab) = <<FALSE, "Bitrate difference: 1000 vs 320 kbps">>
    /\ Unwrap(quality_ab) = Unwrap(compare_ab)

(***************************************************************************)
(* Properties of move_duplicate (specification FairSpecMove)               *)
(***************************************************************************)

\* Every entry the directory held before the first call is still there with
\* its content.
ExistingKept ==
    \A n \in DOMAIN dir0 : n \in DOMAIN dup_dir /\ dup_dir[n] = dir0[n]

\* The moved files have pairwise different destinations, each still holding
\* the file moved to it.
MovedApart ==
    /\ \A k, h \in 1..Len(moved) : (k # h) => moved[k][2] # moved[h][2]
    /\ \A k \in 1..Len(moved) :
         /\ moved[k][2] \in DOMAIN dup_dir
         /\ dup_dir[moved[k][2]].content = moved[k][1]

\* The name with counter c for the file of the running call.
CounterName(c) ==
    new_name(Unwrap(file_name_of(mv_path)), c, extension_of(mv_path))

\* The destination the running call must choose in the current directory.
ExpectedDestination ==
    LET name == Unwrap(file_name_of(mv_path))
        least == CHOOSE c \in 1..(Cardinality(DOMAIN dup_dir) + 1) :
                    /\ CounterName(c) \notin DOMAIN dup_dir
                    /\ \A d \in 1..(c - 1) : CounterName(d) \in DOMAIN dup_dir
    IN  IF name \notin DOMAIN dup_dir THEN name ELSE CounterName(least)

\* The search is past every counter below the current one, and the chosen
\* destination is the expected one.
ChoiceRight ==
    /\ mv_pc = "probe" =>
         /\ counter >= 1
         /\ \A d \in 1..(counter - 1) : CounterName(d) \in DOMAIN dup_dir
    /\ mv_pc = "rename" => final_destination = Some(ExpectedDestination)

\* C21: after any sequence of move_duplicate calls on one duplicate
\* directory (that is, until the report is written) no entry that was there
\* before is overwritten and no two moved files share a destination; the
\* destination is the plain file name when no entry has it, otherwise the
\* name with the smallest counter >= 1 that no entry has; and the search for
\* that counter ends.
C21_MoveNeverOverwrites ==
    /\ []((mv_pc # "reported") => (ExistingKept /\ MovedApart /\ ChoiceRight))
    /\ (mv_pc = "probe") ~> (mv_pc = "rename")

(***************************************************************************)
(* Properties of normalize_artist (specification SpecArtist)               *)
(***************************************************************************)

\* The lower-cased names of a list, sorted and joined with ", ".
SortedField(names) ==
    join(sort([k \in 1..Len(names) |-> to_lowercase(names[k])]), ", ")

\* C13: every permutation of a comma-separated artist list normalizes to the
\* same artist field: the lower-cased names, sorted and joined with ", ".
C13_PermutationInvariant ==
    IsSome(artist_out)
    => /\ Unwrap(artist_out)[1] = Unwrap(artist_out)[2]
       /\ Unwrap(artist_out)[1] = SortedField(artist_list)

\* C14: names joined with '&' normalize to the same artist field as the same
\* names comma-separated in any order.
C14_AmpersandEqualsComma ==
    (IsSome(amp_out) /\ IsSome(artist_out))
    => /\ Unwrap(amp_out) = Unwrap(artist_out)[2]
       /\ Unwrap(amp_out) = SortedField(artist_list)

=============================================================================
